---- MODULE Spec2Model ----
(***************************************************************************)
(* SmishGrade (src/SmishGrade.py): the heuristic URL scorer analyze_url,   *)
(* the WHOIS age cache (check_cache / save_cache / get_domain_age) and the *)
(* interactive batch loop of the main program.                             *)
(*                                                                         *)
(* Strings.  A URL is a record of its textual parts; RawUrl(u) is the      *)
(* string the program reads from the input file.  Host labels and path     *)
(* atoms are whole strings: a character test of the source ('@' in url,    *)
(* keyword in path.lower(), subdomain.count('.')) is made on the atoms, so *)
(* the atoms of UrlPool are chosen so that no keyword, '@' or '.' spans    *)
(* two atoms or hides inside one.  The URLs of UrlPool hold no '?', '#',   *)
(* ';' or port, and their host labels are lower case.                      *)
(***************************************************************************)
EXTENDS Integers, Sequences, FiniteSets, TLC

\* ------------------------------------------------------------------------
\* Configuration (module-level globals of the source)

abused_TLD == {".xyz", ".top", ".link", ".club", ".online", ".live"}

suspicious_keywords == {"login", "verify", "secure", "account", "update", "bank"}

HeuristicIds ==
    {"H1_Length", "H2_IP_Hostname", "H3_At_Symbol", "H4_Keywords",
     "H5_Subdomains", "H6_Abused_TLD", "H7_Domain_Age"}

heuristic_weights ==
    [h \in HeuristicIds |->
        CASE h = "H1_Length"      -> 5
          [] h = "H2_IP_Hostname" -> 40
          [] h = "H3_At_Symbol"   -> 10
          [] h = "H4_Keywords"    -> 5
          [] h = "H5_Subdomains"  -> 15
          [] h = "H6_Abused_TLD"  -> 20
          [] h = "H7_Domain_Age"  -> 50]

malicious_threshold == 20

suspicious_threshold == 1

\* len(url) > 75
LengthLimit == 75

\* 0 <= domain_age <= 30
YoungAgeLimit == 30

\* ------------------------------------------------------------------------
\* String helpers

RECURSIVE Concat(_)
\* ''.join(parts)
Concat(parts) ==
    IF parts = <<>> THEN "" ELSE Head(parts) \o Concat(Tail(parts))

RECURSIVE Join(_, _)
\* sep.join(parts)
Join(parts, sep) ==
    IF parts = <<>> THEN ""
    ELSE IF Len(parts) = 1 THEN parts[1]
    ELSE parts[1] \o sep \o Join(Tail(parts), sep)

\* str.lower() on the path atoms of UrlPool (identity on the others)
Lower(atom) ==
    CASE atom = "LOGIN"  -> "login"
      [] atom = "Verify" -> "verify"
      [] atom = "Secure" -> "secure"
      [] OTHER           -> atom

\* ------------------------------------------------------------------------
\* URL text

\* a run of 70 filler characters, to build URLs longer than LengthLimit
Pad70 == "aaaaaaaaaabbbbbbbbbbccccccccccddddddddddeeeeeeeeeeffffffffffgggggggggg"

\* the text of the host part as written in the URL
HostText(u) ==
    CASE u.form = "name"  -> Join(u.labels, ".")
      [] u.form = "v6"    -> "[::1]"
      [] u.form = "badv6" -> "[::1"
      [] u.form = "empty" -> ""

\* the raw line of the input file
RawUrl(u) == u.scheme \o u.userinfo \o HostText(u) \o Concat(u.path)

MkUrl(scheme, userinfo, form, labels, path) ==
    [scheme |-> scheme, userinfo |-> userinfo, form |-> form,
     labels |-> labels, path |-> path]

\* the input lines the batch loop draws from
BatchPool ==
    { MkUrl("http://", "", "name", <<"example", "com">>, <<>>),
      MkUrl("http://", "", "name", <<"example", "com">>, <<"/", "LOGIN">>),
      MkUrl("http://", "", "name", <<"shop", "xyz">>, <<>>),
      MkUrl("http://", "", "name", <<"shop", "xyz">>, <<"/", Pad70>>),
      MkUrl("http://", "", "empty", <<>>, <<>>),
      MkUrl("http://", "", "empty", <<>>, <<"/", Pad70>>),
      MkUrl("http://", "", "badv6", <<>>, <<"/", "login">>) }

\* further URLs, one per heuristic the batch lines leave out
UrlPool ==
    BatchPool \cup
    { MkUrl("", "", "name", <<"www", "example", "com">>, <<"/", "index">>),
      MkUrl("http://", "", "name", <<"192", "168", "1", "1">>, <<"/", "login">>),
      MkUrl("https://", "", "name", <<"a", "b", "c", "example", "com">>, <<"/", "Verify">>),
      MkUrl("http://", "user@", "name", <<"shop", "xyz">>, <<"/">>),
      MkUrl("http://", "", "name", <<"a", "b", "example", "com">>, <<"/">>),
      MkUrl("http://", "", "name", <<"a", "b", "c", "example", "com">>, <<"/", Pad70>>),
      MkUrl("http://", "", "name", <<"example", "com">>, <<"/", "login", "/", "verify">>),
      MkUrl("http://", "user@", "name", <<"192", "168", "1", "1">>, <<"/">>) }

\* ------------------------------------------------------------------------
\* URL parsing (urllib.parse.urlparse, tldextract.extract, ipaddress)

\* 'http://' is prepended unless the URL starts with http:// or https://
url_to_parse(url) ==
    IF url.scheme \in {"http://", "https://"}
    THEN url
    ELSE [url EXCEPT !.scheme = "http://"]

\* urlparse raises ValueError("Invalid IPv6 URL") on an unbalanced bracket
UrlparseRaises(p) == p.form = "badv6"

\* parsed_url.hostname: the host after the userinfo, without brackets;
\* "" stands for None (a false value either way)
hostname(p) ==
    CASE p.form = "name"  -> Join(p.labels, ".")
      [] p.form = "v6"    -> "::1"
      [] OTHER            -> ""

\* parsed_url.path
path(p) == p.path

\* the labels tldextract knows as public suffixes (the part of its list that
\* UrlPool uses)
PublicSuffixes ==
    {<<"com">>, <<"org">>, <<"uk">>, <<"co", "uk">>, <<"xyz">>, <<"top">>,
     <<"link">>, <<"club">>, <<"online">>, <<"live">>}

\* int(label) on the host labels of UrlPool; -1 for a label that is not a
\* decimal number
Decimal(label) ==
    CASE label = "1"   -> 1
      [] label = "168" -> 168
      [] label = "192" -> 192
      [] label = "999" -> 999
      [] OTHER         -> -1

\* the largest octet of a dotted IPv4 literal
MaxOctet == 255

\* ipaddress.ip_address(hostname) does not raise ValueError
is_ip(p) ==
    \/ p.form = "v6"
    \/ /\ p.form = "name"
       /\ Len(p.labels) = 4
       /\ \A i \in 1..4 : Decimal(p.labels[i]) \in 0..MaxOctet

\* number of trailing labels that form the longest known public suffix
SuffixLen(labels) ==
    LET n == Len(labels)
        ks == {k \in 1..n : SubSeq(labels, n - k + 1, n) \in PublicSuffixes}
    IN IF ks = {} THEN 0 ELSE CHOOSE k \in ks : \A j \in ks : j <= k

\* an extraction that splits a dotted IPv4 literal like a host name
extracted_domain_splitting_ip(p) ==
    IF p.form # "name"
    THEN [subdomain |-> <<>>, domain |-> HostText(p), suffix |-> <<>>]
    ELSE LET n == Len(p.labels)
             k == SuffixLen(p.labels)
         IN IF k = n
            THEN [subdomain |-> <<>>, domain |-> "", suffix |-> p.labels]
            ELSE [subdomain |-> SubSeq(p.labels, 1, n - k - 1),
                  domain    |-> p.labels[n - k],
                  suffix    |-> SubSeq(p.labels, n - k + 1, n)]

\* tldextract.extract(url_to_parse): subdomain labels, domain, suffix labels
extracted_domain(p) ==
    IF p.form # "name" \/ is_ip(p)
    THEN [subdomain |-> <<>>, domain |-> HostText(p), suffix |-> <<>>]
    ELSE LET n == Len(p.labels)
             k == SuffixLen(p.labels)
         IN IF k = n
            THEN [subdomain |-> <<>>, domain |-> "", suffix |-> p.labels]
            ELSE [subdomain |-> SubSeq(p.labels, 1, n - k - 1),
                  domain    |-> p.labels[n - k],
                  suffix    |-> SubSeq(p.labels, n - k + 1, n)]

\* extracted_domain.top_domain_under_public_suffix
main_domain(p) ==
    LET e == extracted_domain(p)
    IN IF e.suffix # <<>> /\ e.domain # ""
       THEN e.domain \o "." \o Join(e.suffix, ".")
       ELSE ""

\* the dots of the whole hostname, those of the registered domain included
HostDots(p) == Len(p.labels) - 1

\* extracted_domain.subdomain.count('.')
SubdomainDots(p) ==
    LET e == extracted_domain(p)
    IN IF e.subdomain = <<>> THEN 0 ELSE Len(e.subdomain) - 1

\* tld = '.' + extracted_domain.suffix
tld(p) == "." \o Join(extracted_domain(p).suffix, ".")

\* '@' in url
HasAt(url) ==
    \/ url.userinfo # ""
    \/ \E i \in 1..Len(url.path) : url.path[i] = "@"

\* some keyword in path.lower()
HasKeyword(p) ==
    \E i \in 1..Len(path(p)) : Lower(path(p)[i]) \in suspicious_keywords

\* ------------------------------------------------------------------------
\* The WHOIS age cache

\* the age stored and returned when a lookup fails
Sentinel == -1

\* a dict with no entry
EmptyMap == [d \in {} |-> 0]

\* whois_cache = {}  (module import, and the fall-back of check_cache)
EmptyCache == [kind |-> "dict", map |-> EmptyMap]

\* an assignment that rebinds the dict to the new entry alone
StoreAlone(map, domain, age) == [d \in {domain} |-> age]

\* whois_cache[domain] = age on a dict
Store(map, domain, age) ==
    [d \in (DOMAIN map) \cup {domain} |-> IF d = domain THEN age ELSE map[d]]

\* a dump that leaves out the failed lookups
JsonDumpWithoutSentinel(cache) ==
    IF cache.kind = "dict"
    THEN [kind |-> "object",
          pairs |-> {<<d, cache.map[d]>> : d \in {e \in DOMAIN cache.map : cache.map[e] # Sentinel}}]
    ELSE [kind |-> "array", pairs |-> {}]

\* json.dump(whois_cache, f): the JSON text, an object as its set of
\* "key": value members, an array as "[]"
JsonDump(cache) ==
    IF cache.kind = "dict"
    THEN [kind |-> "object", pairs |-> {<<d, cache.map[d]>> : d \in DOMAIN cache.map}]
    ELSE [kind |-> "array", pairs |-> {}]

\* json.load(f) of a valid JSON text
JsonLoad(text) ==
    CASE text.kind = "object" ->
            [kind |-> "dict",
             map  |-> [d \in {pr[1] : pr \in text.pairs} |->
                          (CHOOSE pr \in text.pairs : pr[1] = d)[2]]]
      [] text.kind = "array"  -> [kind |-> "list", map |-> EmptyMap]
      [] text.kind = "scalar" -> [kind |-> "scalar", map |-> EmptyMap]

\* check_cache(): the cache left in memory and whether an exception leaves
\* the function.  FileNotFoundError and JSONDecodeError are handled; another
\* OSError of open() and the TypeError of len() on a JSON number are not.
check_cache(file, cache) ==
    CASE file.kind = "absent"     -> [raised |-> FALSE, cache |-> EmptyCache]
      [] file.kind = "garbage"    -> [raised |-> FALSE, cache |-> EmptyCache]
      [] file.kind = "unreadable" -> [raised |-> TRUE,  cache |-> cache]
      [] file.kind = "scalar"     -> [raised |-> TRUE,  cache |-> JsonLoad(file)]
      [] OTHER                    -> [raised |-> FALSE, cache |-> JsonLoad(file)]

\* what whois.whois(domain) and the age computation can do
WhoisOutcomes ==
    {[kind |-> "raise", days |-> 0],     \* the query raises
     [kind |-> "nodate", days |-> 0],    \* creation_date is None or empty
     [kind |-> "badage", days |-> 0]}    \* the date subtraction raises
    \cup {[kind |-> "age", days |-> n] : n \in {0, YoungAgeLimit, YoungAgeLimit + 1}}

\* the outcomes a direct call draws from: also a creation date that lies in
\* the future, which line 111 turns into a negative number of days
ScorerOutcomes == WhoisOutcomes \cup {[kind |-> "age", days |-> -2]}

\* the outcomes the batch loop draws from
BatchOutcomes == {o \in WhoisOutcomes : o.days # YoungAgeLimit}

\* where KeyboardInterrupt (Ctrl-C) stops a call of analyze_url.  No
\* handler of the program catches it (lines 117, 145, 253, 255 are except
\* Exception), so it can leave the call at any statement; the places that
\* differ in what has been done are: "early", before the lookup is called
\* (for one while tldextract.extract waits, line 138); "entered", in
\* get_domain_age before time.sleep is called (lines 101-106); "sleep",
\* while time.sleep waits (line 107); "between", after time.sleep has
\* returned and before whois.whois is called; "whois", while whois.whois
\* waits (line 108); "late", after the lookup has stored the age or read it
\* from the cache (lines 103, 112, 115, 119) and before analyze_url
\* returns; "none", nowhere
CallStops == {"none", "early", "entered", "sleep", "between", "whois", "late"}

\* the stops inside get_domain_age before anything is stored
Interrupts == {"entered", "sleep", "between", "whois"}

\* where KeyboardInterrupt stops an iteration of the batch loop: in the
\* call, or after the call has returned: "row", before the row is written
\* (line 241); "after_row", after it, before the next iteration
LoopCuts == {"row", "after_row"}

\* where an iteration fails after the call has returned: "row_error",
\* csv_writer.writerow raises (line 241) and no row is written
LoopFaults == {"row_error"}

LoopStops == CallStops \cup LoopCuts \cup LoopFaults

\* the outcome of the external query, and where the interrupt arrives
At(o, stop) == [kind |-> o.kind, days |-> o.days, stop |-> stop]

\* what a miss does to the outside, in program order: time.sleep(1.5) is
\* called and returns (line 107), then whois.whois(domain) is called
\* (line 108)
MissEvents == <<"sleep", "whois">>

\* a lookup on which KeyboardInterrupt arrives before anything is stored:
\* the exception leaves get_domain_age; the events are the waits begun so
\* far, the sleep has returned when the interrupt comes after it
InterruptedMiss(cache, outcome) ==
    [raised |-> TRUE, interrupted |-> TRUE, ret |-> Sentinel, cache |-> cache,
     queried |-> outcome.stop = "whois",
     slept   |-> outcome.stop \in {"between", "whois"},
     events  |-> CASE outcome.stop = "entered" -> <<>>
                   [] outcome.stop = "whois"   -> MissEvents
                   [] OTHER                    -> SubSeq(MissEvents, 1, 1)]

\* get_domain_age(domain) with the cache as it is, the outcome the external
\* query would have and the place where an interrupt arrives: the value
\* returned, the cache left, whether the query was issued, whether the
\* pacing sleep returned, the external events in order, whether an
\* exception leaves the function and whether that is KeyboardInterrupt
get_domain_age(cache, domain, outcome) ==
    LET hit  == cache.kind = "dict" /\ domain \in DOMAIN cache.map
        age  == IF outcome.kind = "age" THEN outcome.days ELSE Sentinel
        late == outcome.stop = "late"
    IN IF outcome.stop = "entered"
       THEN InterruptedMiss(cache, outcome)
       ELSE IF hit
       THEN [raised |-> late, interrupted |-> late,
             ret |-> cache.map[domain], cache |-> cache,
             queried |-> FALSE, slept |-> FALSE, events |-> <<>>]
       ELSE IF cache.kind \in {"dict", "list"} /\ outcome.stop \in Interrupts
       THEN InterruptedMiss(cache, outcome)
       ELSE IF cache.kind = "dict"
       \* with the interrupt right after the store, the age is in the cache
       \* and the exception leaves the function
       THEN [raised |-> late, interrupted |-> late, ret |-> age,
             cache |-> [cache EXCEPT !.map = Store(cache.map, domain, age)],
             queried |-> TRUE, slept |-> TRUE, events |-> MissEvents]
       ELSE IF cache.kind = "list"
       \* item assignment on a list raises TypeError, in the try block and
       \* again in the except block
       THEN [raised |-> TRUE, interrupted |-> FALSE, ret |-> Sentinel,
             cache |-> cache,
             queried |-> TRUE, slept |-> TRUE, events |-> MissEvents]
       \* 'domain in whois_cache' raises TypeError on a number
       ELSE [raised |-> TRUE, interrupted |-> FALSE, ret |-> Sentinel,
             cache |-> cache,
             queried |-> FALSE, slept |-> FALSE, events |-> <<>>]

\* ------------------------------------------------------------------------
\* The scorer

\* a verdict that takes the malicious threshold as exclusive
final_verdict_exclusive(total_score) ==
    IF total_score > malicious_threshold THEN "Malicious"
    ELSE IF total_score >= suspicious_threshold THEN "Suspicious"
    ELSE "Benign"

\* the verdict of a score (lines 188-192)
final_verdict(total_score) ==
    IF total_score >= malicious_threshold THEN "Malicious"
    ELSE IF total_score >= suspicious_threshold THEN "Suspicious"
    ELSE "Benign"

\* an age test without the lower bound: domain_age <= 30
IsYoungNoLowerBound(domain_age) == domain_age <= YoungAgeLimit

\* 0 <= domain_age <= 30 (line 184)
IsYoung(domain_age) == 0 <= domain_age /\ domain_age <= YoungAgeLimit

\* total_score += heuristic_weights[h]; heuristics_found.append(h), when cond
Trigger(acc, cond, h) ==
    IF cond
    THEN [score |-> acc.score + heuristic_weights[h], found |-> Append(acc.found, h)]
    ELSE acc

\* the early returns of the parsing block: no heuristic evaluated, no lookup
ParseErrorResult(verdict, cache) ==
    [raised |-> FALSE, score |-> 0, verdict |-> verdict, heuristics |-> <<>>,
     age |-> Sentinel, cache |-> cache, called |-> FALSE, queried |-> FALSE,
     slept |-> FALSE, events |-> <<>>, interrupted |-> FALSE]

\* an exception leaves analyze_url: nothing is returned
RaisedResult(cache, called, queried, slept, events, interrupted) ==
    [raised |-> TRUE, score |-> 0, verdict |-> "none", heuristics |-> <<>>,
     age |-> Sentinel, cache |-> cache, called |-> called, queried |-> queried,
     slept |-> slept, events |-> events, interrupted |-> interrupted]

\* the records of a loop over the keywords that has no break: one for
\* every keyword found in the path
KeywordHitsWithoutBreak(p) ==
    Cardinality({k \in suspicious_keywords :
                    \E i \in 1..Len(path(p)) : Lower(path(p)[i]) = k})

\* lines 167-170: how often the body of the keyword loop records H4: the
\* break leaves the loop at the first keyword found in path.lower()
KeywordHits(p) == IF HasKeyword(p) THEN 1 ELSE 0

\* the same heuristic recorded a number of times in a row
RECURSIVE TriggerTimes(_, _, _)
TriggerTimes(acc, times, h) ==
    IF times = 0 THEN acc
    ELSE TriggerTimes(Trigger(acc, TRUE, h), times - 1, h)

\* heuristic_weights.append('H1_Length'): a dict has no append, so the
\* statement raises AttributeError whenever it is executed
H1AppendRaises == TRUE

\* analyze_url(url) with the cache as it is and the outcome the external
\* query would have
analyze_url(url, cache, outcome) ==
    LET p == url_to_parse(url)
    IN IF outcome.stop = "early"
       THEN RaisedResult(cache, FALSE, FALSE, FALSE, <<>>, TRUE)
       ELSE IF UrlparseRaises(p) THEN ParseErrorResult("Error-Parsing", cache)
       ELSE IF hostname(p) = "" THEN ParseErrorResult("Error-No-Hostname", cache)
       ELSE IF Len(RawUrl(url)) > LengthLimit /\ H1AppendRaises
       THEN RaisedResult(cache, FALSE, FALSE, FALSE, <<>>, FALSE)
       ELSE
       LET a1 == Trigger([score |-> 0, found |-> <<>>],
                         Len(RawUrl(url)) > LengthLimit, "H1_Length")
           a2 == Trigger(a1, is_ip(p), "H2_IP_Hostname")
           a3 == Trigger(a2, HasAt(url), "H3_At_Symbol")
           a4 == TriggerTimes(a3, KeywordHits(p), "H4_Keywords")
           a5 == Trigger(a4, SubdomainDots(p) >= 2, "H5_Subdomains")
           a6 == Trigger(a5, tld(p) \in abused_TLD, "H6_Abused_TLD")
           g  == get_domain_age(cache, main_domain(p), outcome)
           a7 == Trigger(a6, IsYoung(g.ret), "H7_Domain_Age")
       IN IF g.raised
          THEN RaisedResult(g.cache, TRUE, g.queried, g.slept, g.events,
                            g.interrupted)
          ELSE [raised |-> FALSE, score |-> a7.score,
                verdict |-> final_verdict(a7.score), heuristics |-> a7.found,
                age |-> g.ret, cache |-> g.cache, called |-> TRUE,
                queried |-> g.queried, slept |-> g.slept,
                events |-> g.events, interrupted |-> FALSE]

\* an outcome for a call that never gets to the external query
AnyOutcome == [kind |-> "nodate", days |-> 0]

\* the call gets to time.sleep: its lookup misses the cache
Waits(url, cache) ==
    analyze_url(url, cache, At(AnyOutcome, "none")).events # <<>>

\* the stops to draw from before the call gets to time.sleep, or for the
\* whole of a call that never gets there.  A stop is an input only when the
\* call gets to that place: "entered" when the lookup is called, and the
\* stops after the lookup ("late") and after the call only when the call
\* does not wait and no exception of the call's own comes before
StopsBefore(url, cache) ==
    LET probe == analyze_url(url, cache, At(AnyOutcome, "none"))
        waits == probe.events # <<>>
    IN {"early"}
       \cup (IF probe.called THEN {"entered"} ELSE {})
       \cup (IF waits THEN {} ELSE {"none"})
       \cup (IF waits \/ probe.raised THEN {} ELSE LoopCuts \cup LoopFaults)
       \cup (IF ~waits /\ probe.called /\ ~probe.raised THEN {"late"} ELSE {})

\* the stops to draw from while time.sleep waits and when it has returned
StopsInSleep == {"sleep", "between"}

\* the stops to draw from when whois.whois has returned or raised: after
\* the store and after the call, when no exception of the call's own
\* comes before
StopsAfter(url, cache) ==
    {"none"} \cup (IF analyze_url(url, cache, At(AnyOutcome, "none")).raised
                   THEN {}
                   ELSE {"late"} \cup LoopCuts \cup LoopFaults)

\* ------------------------------------------------------------------------
\* Bounds of the model

\* URLs in one input file
MaxBatch == 2

\* external queries of one domain that a process is followed through: a
\* cache loaded from a JSON array stores nothing, so the program repeats the
\* query of a domain at every lookup, without limit
MaxQueries == 2

\* ------------------------------------------------------------------------
\* The main program

VARIABLES
    pc,            \* position of the process in the main program
    whois_cache,   \* the global whois_cache of the running process
    storage,       \* the content of whois_cache.json
    cur,           \* the call of analyze_url that waits in its lookup, if any
    batch_len,     \* len(urls_to_test) of the current input file
    n,             \* 1-based index of the next URL of the batch loop
    rows,          \* records written to the CSV file for the current file
    ret,           \* where save_cache returns to
    queries,       \* external WHOIS queries per domain, this process
    first_age,     \* per domain, the first value get_domain_age returned, this process
    last,          \* what the step that led to this state did
    saved,         \* the cache that the last completed save wrote, if any
    intact,        \* storage still holds what that save wrote
    final_save,    \* the finally clause has called save_cache in this process
    ended          \* how the previous process ended

vars == <<pc, whois_cache, storage, cur, batch_len, n, rows, ret, queries,
          first_age, last, saved, intact, final_save, ended>>

\* the registered domains of the URLs of UrlPool ("" for a host without
\* one), written out
Domains == {"", "example.com", "shop.xyz"}

\* what whois_cache.json can hold when the first process starts
InitialStorage ==
    {[kind |-> k, pairs |-> {}] : k \in {"absent", "unreadable", "garbage", "scalar", "array"}}
    \cup {[kind |-> "object", pairs |-> {<<"example.com", YoungAgeLimit + 1>>}]}

\* a step that is no call of analyze_url or check_cache
Did(op) == [op |-> op]

NoSave == [kind |-> "none", map |-> EmptyMap]

\* what a call has done to the outside so far: the waits it has begun, in
\* order, and whether time.sleep has returned
NoLog == [events |-> <<>>, slept |-> FALSE]

\* no call of analyze_url is waiting
NoCall == [from |-> "none", log |-> NoLog]

\* the memory of a process that has just been started (module import:
\* whois_cache = {}) or that is gone
FreshMemory ==
    [whois_cache |-> EmptyCache, cur |-> NoCall,
     batch_len |-> 0, n |-> 1, rows |-> 0,
     ret |-> "prompt", queries |-> [d \in Domains |-> 0], first_age |-> EmptyMap]

\* the state after construction: the first process has just been started
Init ==
    /\ pc = "start"
    /\ whois_cache = FreshMemory.whois_cache
    /\ cur = FreshMemory.cur
    /\ batch_len = FreshMemory.batch_len
    /\ n = FreshMemory.n
    /\ rows = FreshMemory.rows
    /\ ret = FreshMemory.ret
    /\ queries = FreshMemory.queries
    /\ first_age = FreshMemory.first_age
    /\ last = Did("Init")
    /\ final_save = FALSE
    /\ storage \in InitialStorage
    /\ saved = NoSave
    /\ intact = FALSE
    /\ ended = "none"

\* the memory of the process is lost
Wipe ==
    /\ whois_cache' = FreshMemory.whois_cache
    /\ cur' = FreshMemory.cur
    /\ batch_len' = FreshMemory.batch_len
    /\ n' = FreshMemory.n
    /\ rows' = FreshMemory.rows
    /\ ret' = FreshMemory.ret
    /\ queries' = FreshMemory.queries
    /\ first_age' = FreshMemory.first_age

\* line 199: check_cache(), outside every try block: an exception it lets
\* through ends the process with a traceback, and so does KeyboardInterrupt
\* before the file is loaded or, when the load went through, after it
CheckCache ==
    /\ pc = "start"
    /\ LET r == check_cache(storage, whois_cache)
       IN \E stop \in {"none", "before", "after"} :
          /\ stop = "after" => ~r.raised
          /\ whois_cache' = IF stop = "before" THEN whois_cache ELSE r.cache
          /\ pc' = IF stop # "none" THEN "interrupted"
                   ELSE IF r.raised THEN "abort" ELSE "open_csv"
          /\ last' = [op |-> "check_cache", raised |-> r.raised \/ stop # "none",
                      interrupted |-> stop # "none"]
    /\ UNCHANGED <<storage, cur, batch_len, n, rows, ret, queries,
                   first_age, saved, intact, final_save, ended>>

\* lines 202-215: open the CSV file for appending, write the header if new;
\* an error is caught at line 255
OpenCsv ==
    /\ pc = "open_csv"
    /\ \E ok \in BOOLEAN : pc' = IF ok THEN "prompt" ELSE "finally"
    /\ last' = Did("OpenCsv")
    /\ UNCHANGED <<whois_cache, storage, cur, batch_len, n, rows, ret, queries,
                   first_age, saved, intact, final_save, ended>>

\* lines 221-223: the user types q
Quit ==
    /\ pc = "prompt"
    /\ pc' = "finally"
    /\ last' = Did("Quit")
    /\ UNCHANGED <<whois_cache, storage, cur, batch_len, n, rows, ret, queries,
                   first_age, saved, intact, final_save, ended>>

\* lines 221, 226: input() raises (end of input); caught at line 255
InputError ==
    /\ pc = "prompt"
    /\ pc' = "finally"
    /\ last' = Did("InputError")
    /\ UNCHANGED <<whois_cache, storage, cur, batch_len, n, rows, ret, queries,
                   first_age, saved, intact, final_save, ended>>

\* lines 227-229: the ground truth is neither malicious nor benign
InvalidTruth ==
    /\ pc = "prompt"
    /\ pc' = "prompt"
    /\ last' = Did("InvalidTruth")
    /\ UNCHANGED <<whois_cache, storage, cur, batch_len, n, rows, ret, queries,
                   first_age, saved, intact, final_save, ended>>

\* lines 233, 251-254: the input file cannot be opened or read
FileError ==
    /\ pc = "prompt"
    /\ pc' = "prompt"
    /\ last' = Did("FileError")
    /\ UNCHANGED <<whois_cache, storage, cur, batch_len, n, rows, ret, queries,
                   first_age, saved, intact, final_save, ended>>

\* lines 233-235: the input file is read into urls_to_test.  Its lines are
\* inputs: the model fixes their number here and draws the line at index n
\* when the loop reaches it, since no statement reads a line before its turn
StartBatch ==
    /\ pc = "prompt"
    /\ \E k \in 0..MaxBatch : batch_len' = k
    /\ n' = 1
    /\ rows' = 0
    /\ pc' = "loop"
    /\ last' = Did("StartBatch")
    /\ UNCHANGED <<whois_cache, storage, cur, ret, queries, first_age,
                   saved, intact, final_save, ended>>

\* a call whose lookup queries twice in a row
CallWhoisWithRetry(log) ==
    [log EXCEPT !.events = @ \o <<"whois", "whois">>]

\* line 107: time.sleep(1.5) is called
CallSleep(log) == [log EXCEPT !.events = Append(@, "sleep")]

\* line 107: time.sleep(1.5) has returned
SleepReturned(log) == [log EXCEPT !.slept = TRUE]

\* line 108: whois.whois(domain) is called
CallWhois(log) == [log EXCEPT !.events = Append(@, "whois")]

\* the external queries in a list of events
Queries(events) == {i \in 1..Len(events) : events[i] = "whois"}

\* the record of one call of analyze_url: the URL, the inputs, what the
\* call returned, and what its steps did to the outside
CallRecord(url, o, r, log) ==
    [op |-> "analyze_url", url |-> url, index |-> n,
     outcome |-> IF Queries(log.events) # {} /\ o.stop # "whois"
                 THEN o.kind ELSE "none",
     stop |-> o.stop,
     raised |-> r.raised, score |-> r.score, verdict |-> r.verdict,
     heuristics |-> r.heuristics, age |-> r.age, called |-> r.called,
     queried |-> Queries(log.events) # {}, slept |-> log.slept,
     events |-> log.events,
     interrupted |-> r.interrupted \/ (~r.raised /\ o.stop \in LoopCuts),
     changed |-> r.cache # whois_cache]

\* the call is over, with a result or an exception, and control is back in
\* the caller.  In the batch loop (lines 237-248, 253-254): the row is
\* written and the next iteration begins; or an exception of analyze_url or
\* of csv_writer.writerow (line 241) is caught by the handler of the whole
\* batch (line 253), which goes back to the prompt; or KeyboardInterrupt,
\* which neither line 253 nor line 255 catches, leaves the loop for the
\* finally clause of line 257 and ends the process after it, from inside
\* the call or, when the call has returned, before or after the row is
\* written.  In a direct call KeyboardInterrupt, uncaught, ends the caller
Returned(url, o, log, from, d, r) ==
    /\ whois_cache' = r.cache
    /\ cur' = NoCall
    /\ last' = CallRecord(url, o, r, log)
    /\ first_age' = IF r.called /\ ~r.raised /\ d \notin DOMAIN first_age
                    THEN Store(first_age, d, r.age)
                    ELSE first_age
    /\ IF from # "loop"
       THEN /\ pc' = IF r.interrupted THEN "interrupted" ELSE from
            /\ UNCHANGED <<n, rows>>
       ELSE IF r.raised
       THEN /\ pc' = IF r.interrupted THEN "finally" ELSE "prompt"
            /\ UNCHANGED <<n, rows>>
       ELSE IF o.stop \in LoopFaults
       THEN /\ pc' = "prompt"
            /\ UNCHANGED <<n, rows>>
       ELSE IF o.stop \in LoopCuts
       THEN /\ pc' = "finally"
            /\ n' = n
            /\ rows' = IF o.stop = "row" THEN rows ELSE rows + 1
       ELSE /\ pc' = "loop"
            /\ n' = n + 1
            /\ rows' = rows + 1
    /\ UNCHANGED <<storage, batch_len, ret, saved, intact, final_save,
                   ended>>

\* line 239: analyze_url(url) returns or raises, with the result d, r of
\* the call for the cache as it is
Return(url, o, log, from) ==
    Returned(url, o, log, from, main_domain(url_to_parse(url)),
             analyze_url(url, whois_cache, o))

\* the stops that a caller can see: those of the batch loop, or those of
\* the call alone
StopsOf(from) == IF from = "loop" THEN LoopStops ELSE CallStops

\* lines 126-183, 101-107: analyze_url(url) is called and runs until it
\* returns or raises, or, when its lookup misses the cache, until
\* time.sleep has been called and waits (a process is followed through
\* MaxQueries queries of one domain)
Call(url, from) ==
    \/ /\ \E s \in StopsOf(from) \cap StopsBefore(url, whois_cache) :
             Return(url, At(AnyOutcome, s), NoLog, from)
       /\ UNCHANGED queries
    \/ /\ Waits(url, whois_cache)
       /\ queries[main_domain(url_to_parse(url))] < MaxQueries
       /\ pc' = "sleeping"
       /\ cur' = [url |-> url, from |-> from, log |-> CallSleep(NoLog)]
       /\ last' = Did("time.sleep")
       /\ UNCHANGED <<whois_cache, storage, batch_len, n, rows, ret, queries,
                      first_age, saved, intact, final_save, ended>>

\* lines 237-239: the batch loop takes the next URL of the file and calls
\* analyze_url
ProcessUrl ==
    /\ pc = "loop"
    /\ n <= batch_len
    /\ \E url \in BatchPool : Call(url, "loop")

\* lines 107-108: time.sleep waits.  KeyboardInterrupt arrives while it
\* waits, or it returns and KeyboardInterrupt arrives before the next
\* statement, or it returns and whois.whois is called and waits
LookupSleep ==
    /\ pc = "sleeping"
    /\ \/ /\ \E s \in StopsInSleep :
                Return(cur.url, At(AnyOutcome, s),
                       IF s = "between" THEN SleepReturned(cur.log)
                                        ELSE cur.log,
                       cur.from)
          /\ UNCHANGED queries
       \/ /\ pc' = "querying"
          /\ cur' = [cur EXCEPT !.log = CallWhois(SleepReturned(@))]
          /\ queries' = [queries EXCEPT ![main_domain(url_to_parse(cur.url))]
                                           = @ + 1]
          /\ last' = Did("whois.whois")
          /\ UNCHANGED <<whois_cache, storage, batch_len, n, rows, ret,
                         first_age, saved, intact, final_save, ended>>

\* the outcomes of the external query that a caller draws from
OutcomesOf(from) == IF from = "loop" THEN BatchOutcomes ELSE ScorerOutcomes

\* lines 108-119, 184-194: whois.whois waits.  KeyboardInterrupt arrives
\* while it waits, or it returns or raises: the age or -1 is stored and the
\* call runs to its end
LookupWhois ==
    /\ pc = "querying"
    /\ \/ Return(cur.url, At(AnyOutcome, "whois"), cur.log, cur.from)
       \/ \E o \in OutcomesOf(cur.from) :
          \E s \in StopsOf(cur.from) \cap StopsAfter(cur.url, whois_cache) :
             Return(cur.url, At(o, s), cur.log, cur.from)
    /\ UNCHANGED queries

\* lines 249-250: the loop is over, save_cache() is called; or
\* KeyboardInterrupt arrives before the call (line 249) and the finally
\* clause is next
EndBatch ==
    /\ pc = "loop"
    /\ n > batch_len
    /\ \E interrupted \in BOOLEAN :
        IF interrupted
        THEN pc' = "finally" /\ ret' = ret
        ELSE pc' = "save_open" /\ ret' = "prompt"
    /\ last' = Did("EndBatch")
    /\ UNCHANGED <<whois_cache, storage, cur, batch_len, n, rows, queries,
                   first_age, saved, intact, final_save, ended>>

\* lines 257-258: the finally clause calls save_cache()
Finally ==
    /\ pc = "finally"
    /\ \E interrupted \in BOOLEAN :
        IF interrupted
        THEN pc' = "interrupted" /\ UNCHANGED <<ret, final_save>>
        ELSE pc' = "save_open" /\ ret' = "exit" /\ final_save' = TRUE
    /\ last' = Did("Finally")
    /\ UNCHANGED <<whois_cache, storage, cur, batch_len, n, rows, queries,
                   first_age, saved, intact, ended>>

\* where an exception that save_cache does not catch (line 94 is except
\* Exception, KeyboardInterrupt is none) takes the program: from the save
\* at the end of a batch to the finally clause, from the save of the
\* finally clause out of the program
Interrupted(return_to) == IF return_to = "prompt" THEN "finally" ELSE return_to

\* line 91: open(whois_cache_file, 'w') truncates the file, or raises and
\* save_cache logs and returns, or KeyboardInterrupt arrives before it
SaveOpen ==
    /\ pc = "save_open"
    /\ \E how \in {"ok", "error", "interrupt"} :
        IF how = "ok"
        THEN /\ storage' = [kind |-> "garbage", pairs |-> {}]
             /\ intact' = FALSE
             /\ pc' = "save_write"
        ELSE /\ pc' = IF how = "error" THEN ret ELSE Interrupted(ret)
             /\ UNCHANGED <<storage, intact>>
    /\ last' = Did("SaveOpen")
    /\ UNCHANGED <<whois_cache, cur, batch_len, n, rows, ret, queries,
                   first_age, saved, final_save, ended>>

\* lines 92-95: json.dump writes the cache and the file is closed, or the
\* write raises part-way and save_cache logs and returns; or
\* KeyboardInterrupt arrives before the write (line 92) or after it (line 93)
SaveWrite ==
    /\ pc = "save_write"
    /\ \E written \in BOOLEAN, interrupted \in BOOLEAN :
        /\ IF written
           THEN /\ storage' = JsonDump(whois_cache)
                /\ saved' = whois_cache
                /\ intact' = TRUE
           ELSE UNCHANGED <<storage, saved, intact>>
        /\ pc' = IF interrupted THEN Interrupted(ret) ELSE ret
    /\ last' = Did("SaveWrite")
    /\ UNCHANGED <<whois_cache, cur, batch_len, n, rows, ret, queries,
                   first_age, final_save, ended>>

\* line 259, or the traceback of an uncaught exception: the process ends
Exit ==
    /\ pc \in {"exit", "abort", "interrupted"}
    /\ pc' = "exited"
    /\ Wipe
    /\ last' = Did(pc)
    /\ UNCHANGED <<storage, saved, intact, final_save, ended>>

\* the process is killed (power loss, kill -9): no handler runs
Crash ==
    /\ pc \notin {"exited", "crashed"}
    /\ pc' = "crashed"
    /\ Wipe
    /\ last' = Did("Crash")
    /\ UNCHANGED <<storage, saved, intact, final_save, ended>>

\* the program is started again on the same storage
Restart ==
    /\ pc \in {"exited", "crashed"}
    /\ ended' = pc
    /\ pc' = "start"
    /\ final_save' = FALSE
    /\ last' = Did("Restart")
    /\ UNCHANGED <<whois_cache, storage, cur, batch_len, n, rows, ret, queries,
                   first_age, saved, intact>>

Next ==
    \/ CheckCache
    \/ OpenCsv
    \/ Quit
    \/ InputError
    \/ InvalidTruth
    \/ FileError
    \/ StartBatch
    \/ ProcessUrl
    \/ LookupSleep
    \/ LookupWhois
    \/ EndBatch
    \/ Finally
    \/ SaveOpen
    \/ SaveWrite
    \/ Exit
    \/ Crash
    \/ Restart

Spec == Init /\ [][Next]_vars

\* ------------------------------------------------------------------------
\* The scorer on its own: the module has been imported (whois_cache = {},
\* line 69; main() is not run, line 261) and analyze_url is called directly,
\* any number of times, with any URL and any outcome of the external query

ScorerInit ==
    /\ pc = "imported"
    /\ whois_cache = FreshMemory.whois_cache
    /\ cur = FreshMemory.cur
    /\ batch_len = FreshMemory.batch_len
    /\ n = FreshMemory.n
    /\ rows = FreshMemory.rows
    /\ ret = FreshMemory.ret
    /\ queries = FreshMemory.queries
    /\ first_age = FreshMemory.first_age
    /\ last = Did("Init")
    /\ final_save = FALSE
    /\ storage = [kind |-> "absent", pairs |-> {}]
    /\ saved = NoSave
    /\ intact = FALSE
    /\ ended = "none"

\* lines 122-194: analyze_url(url) is called directly
ScorerCall ==
    /\ pc = "imported"
    /\ \E url \in UrlPool : Call(url, "imported")

ScorerNext == ScorerCall \/ LookupSleep \/ LookupWhois

ScorerSpec == ScorerInit /\ [][ScorerNext]_vars

\* ------------------------------------------------------------------------
\* Properties

\* the step that led to this state was a call of analyze_url by the loop
Analyzed == last.op = "analyze_url"

\* no hostname can be derived from the URL
NoHostname(url) ==
    \/ UrlparseRaises(url_to_parse(url))
    \/ hostname(url_to_parse(url)) = ""

\* the registered domain of the URL of the last call
LastDomain == main_domain(url_to_parse(last.url))

\* C1: a URL without hostname gets score 0, a parse-error verdict, no
\* heuristic and age -1, no lookup is made for it, and, when it is not the
\* last URL of its file, the batch loop has written its record and stands
\* at the next URL (an iteration that the user's Ctrl-C cuts short is left
\* aside).
C1_ParseErrorContained ==
    (Analyzed /\ NoHostname(last.url) /\ ~last.interrupted) =>
        /\ ~last.raised
        /\ last.score = 0
        /\ last.verdict \in {"Error-Parsing", "Error-No-Hostname"}
        /\ last.heuristics = <<>>
        /\ last.age = -1
        /\ ~last.called /\ ~last.queried /\ ~last.changed
        /\ last.index < batch_len =>
              (pc = "loop" /\ n = last.index + 1 /\ rows = last.index)

\* none of the conditions of H2..H6 holds for the URL
QuietButLengthAndTld(url) ==
    LET p == url_to_parse(url)
    IN /\ ~is_ip(p)
       /\ ~HasAt(url)
       /\ ~HasKeyword(p)
       /\ SubdomainDots(p) < 2

\* C2: a parsed URL longer than 75 characters with an abused TLD and no
\* other trigger scores weight(H1) + weight(H6) and lists exactly H1 and H6.
C2_LongAbusedTldScore ==
    (/\ Analyzed /\ ~NoHostname(last.url) /\ ~last.interrupted
     /\ Len(RawUrl(last.url)) > 75
     /\ tld(url_to_parse(last.url)) \in abused_TLD
     /\ QuietButLengthAndTld(last.url)
     /\ (last.called => ~(0 <= last.age /\ last.age <= 30)))
    => /\ ~last.raised
       /\ last.score = heuristic_weights["H1_Length"] + heuristic_weights["H6_Abused_TLD"]
       /\ last.heuristics = <<"H1_Length", "H6_Abused_TLD">>

\* C3: an error raised while a URL that is not the last of its file is
\* analysed leaves the batch loop running, at the next URL (the user's
\* Ctrl-C is no error and is left aside).
C3_ErrorContainedToUrl ==
    (Analyzed /\ last.raised /\ ~last.interrupted /\ last.index < batch_len) =>
        (pc = "loop" /\ n = last.index + 1)

\* C4: in one process the external query is issued at most once per domain,
\* and a lookup returns what the first lookup of that domain returned.
C4_OneQueryPerDomain ==
    /\ \A d \in Domains : queries[d] <= 1
    /\ (Analyzed /\ last.called /\ ~last.raised) =>
          last.age = first_age[LastDomain]

\* the cache as the set of its (domain, age) entries
Entries(cache) == {<<d, cache.map[d]>> : d \in DOMAIN cache.map}

\* C5: a load that follows a completed save, in a new process, and that
\* the user's Ctrl-C does not end, yields the cache that was saved; and
\* saving the cache of any reachable state and loading it again, in the
\* same process, yields that cache.
C5_SaveLoadRoundTrip ==
    /\ (last.op = "check_cache" /\ ~last.interrupted /\ intact) =>
          (~last.raised /\ whois_cache = saved)
    /\ (whois_cache.kind = "dict") =>
          LET r == check_cache(JsonDump(whois_cache), EmptyCache)
          IN ~r.raised /\ r.cache.kind = "dict" /\ Entries(r.cache) = Entries(whois_cache)

\* C5: a cache of two domains, one of them with the sentinel, was saved and
\* has been loaded by the next process
C5_Witness ==
    /\ last.op = "check_cache" /\ ~last.interrupted /\ intact
    /\ whois_cache.kind = "dict"
    /\ Cardinality(DOMAIN whois_cache.map) = 2
    /\ \E d \in DOMAIN whois_cache.map : whois_cache.map[d] = -1
    /\ \E d \in DOMAIN whois_cache.map : whois_cache.map[d] # -1

\* C6: whenever the process has ended by itself, the finally clause has
\* called save_cache before (a process that the user's Ctrl-C ends before
\* the try block or in the finally clause is left aside).
C6_SaveOnEveryExit == (pc = "exited" /\ last.op # "interrupted") => final_save

\* C7: the cache loaded after a crash holds every entry of the last
\* completed save, with its value (a load that the user's Ctrl-C ends is
\* left aside).
C7_DurableAfterCrash ==
    (last.op = "check_cache" /\ ~last.interrupted
        /\ ended = "crashed" /\ saved.kind = "dict") =>
        /\ ~last.raised
        /\ whois_cache.kind = "dict"
        /\ Entries(saved) \subseteq Entries(whois_cache)

\* C8: a lookup whose external query raises, returns no creation date or
\* whose age computation fails stores -1 for the domain and returns -1.
C8_LookupFailureIsSentinel ==
    (Analyzed /\ last.outcome \in {"raise", "nodate", "badage"}
              /\ ~last.interrupted) =>
        /\ ~last.raised
        /\ last.age = -1
        /\ whois_cache.kind = "dict"
        /\ <<LastDomain, -1>> \in Entries(whois_cache)

\* C9: check_cache returns normally whatever the storage file holds, and
\* leaves the stored domain-to-integer mapping or an empty cache in memory
\* (a load that the user's Ctrl-C ends is left aside).
C9_LoadNeverFails ==
    (last.op = "check_cache" /\ ~last.interrupted) =>
        /\ ~last.raised
        /\ whois_cache.kind = "dict"
        /\ \/ Entries(whois_cache) = {}
           \/ storage.kind = "object" /\ Entries(whois_cache) = storage.pairs

\* the largest score: every heuristic triggered
RECURSIVE SumWeights(_)
SumWeights(hs) ==
    IF hs = {} THEN 0
    ELSE LET h == CHOOSE x \in hs : TRUE
         IN heuristic_weights[h] + SumWeights(hs \ {h})

MaxScore == SumWeights(HeuristicIds)

\* C10: for a parsed URL the verdict is Benign for score 0, Suspicious for
\* 1 <= score < 20 and Malicious for score >= 20; the code's mapping is that
\* function on every score.
C10_VerdictOfScore ==
    /\ (Analyzed /\ ~last.raised /\ ~NoHostname(last.url)) =>
          last.verdict = (IF last.score = 0 THEN "Benign"
                          ELSE IF last.score < 20 THEN "Suspicious"
                          ELSE "Malicious")
    /\ \A sc \in 0..MaxScore :
          final_verdict(sc) = (IF sc = 0 THEN "Benign"
                               ELSE IF sc < 20 THEN "Suspicious"
                               ELSE "Malicious")

\* C10: a URL was analysed whose score is exactly the malicious threshold
C10_Witness ==
    /\ Analyzed /\ ~last.raised /\ ~NoHostname(last.url)
    /\ last.score = 20
    /\ last.verdict = "Malicious"

\* ------------------------------------------------------------------------
\* Properties of the heuristics (ScorerSpec)

\* the heuristic is in the list
Listed(h, found) == \E i \in 1..Len(found) : found[i] = h

\* the sum of the weights of the entries of a list, one by one
RECURSIVE SumList(_)
SumList(found) ==
    IF found = <<>> THEN 0
    ELSE heuristic_weights[Head(found)] + SumList(Tail(found))

\* the call returned a result after its lookup had returned an age
AgeReturned == Analyzed /\ last.called /\ ~last.raised

\* C11: whenever the lookup returns an age, H7_Domain_Age is in the list
\* if and only if 0 <= age <= 30, the score is the weight of the other
\* listed heuristics plus weight(H7) in that case and plus nothing
\* otherwise; for -1 and every other negative age H7 is not listed.
C11_AgeTrigger ==
    AgeReturned =>
        LET young  == 0 <= last.age /\ last.age <= 30
            others == SelectSeq(last.heuristics, LAMBDA h : h # "H7_Domain_Age")
        IN /\ Listed("H7_Domain_Age", last.heuristics) <=> young
           /\ last.score = SumList(others)
                              + (IF young THEN heuristic_weights["H7_Domain_Age"] ELSE 0)
           /\ last.age < 0 =>
                 /\ ~Listed("H7_Domain_Age", last.heuristics)
                 /\ last.score = SumList(last.heuristics)

\* C11: a lookup returned exactly 30 and H7 was recorded, for a URL with
\* no other trigger
C11_Witness ==
    /\ AgeReturned
    /\ last.age = 30
    /\ last.heuristics = <<"H7_Domain_Age">>
    /\ last.score = heuristic_weights["H7_Domain_Age"]

\* number of components of the subdomain part of the URL of the last call
SubdomainComponents ==
    Len(extracted_domain(url_to_parse(last.url)).subdomain)

\* C12: for a URL with a hostname, H5_Subdomains is recorded when the
\* subdomain part has three or more components (the call gets past the H5
\* block to the lookup, and the result it returns lists H5), and is not
\* recorded when it has none, one or two.
C12_SubdomainTrigger ==
    (Analyzed /\ ~NoHostname(last.url) /\ ~last.interrupted) =>
        /\ SubdomainComponents >= 3 =>
              /\ last.called
              /\ ~last.raised => Listed("H5_Subdomains", last.heuristics)
        /\ SubdomainComponents <= 2 =>
              ~Listed("H5_Subdomains", last.heuristics)

\* the URL of the last call has a hostname, at most 75 characters, and none
\* of the conditions of H2..H6
QuietUrl ==
    LET p == url_to_parse(last.url)
    IN /\ ~NoHostname(last.url)
       /\ Len(RawUrl(last.url)) <= 75
       /\ ~is_ip(p)
       /\ ~HasAt(last.url)
       /\ ~HasKeyword(p)
       /\ SubdomainComponents < 3
       /\ tld(p) \notin abused_TLD

\* C13: a call for a parsed URL of at most 75 characters with no IP
\* hostname, no '@', no keyword in the path, fewer than three subdomain
\* components, a TLD that is not abused and an age, returned by the lookup,
\* outside [0, 30] returns score 0, verdict Benign and an empty list.
C13_QuietUrlBenign ==
    (AgeReturned /\ QuietUrl /\ ~(0 <= last.age /\ last.age <= 30)) =>
        /\ last.score = 0
        /\ last.verdict = "Benign"
        /\ last.heuristics = <<>>

\* C13: such a URL with two subdomain components was analysed, the lookup
\* gave the sentinel, and the result was score 0, Benign
C13_Witness ==
    /\ Analyzed /\ QuietUrl
    /\ SubdomainComponents = 2
    /\ last.called /\ last.age = -1
    /\ ~last.raised
    /\ last.score = 0
    /\ last.verdict = "Benign"

\* the key the lookup of the last call used is in the cache
LookupDone ==
    /\ last.called
    /\ whois_cache.kind = "dict"
    /\ "" \in DOMAIN whois_cache.map

\* C14: a call for a URL of at most 75 characters whose hostname is an IP
\* literal and whose path has a keyword, without '@' and with an age,
\* returned by the lookup, outside [0, 30], returns exactly H2_IP_Hostname and H4_Keywords and the score
\* weight(H2) + weight(H4), and has made the lookup (key "": an IP literal
\* has no registered domain); for every IP-literal URL that returns, H3, H4
\* and H7 are listed exactly when their own conditions hold.
C14_IpAndKeyword ==
    LET p == url_to_parse(last.url)
        short == Len(RawUrl(last.url)) <= 75
        young == 0 <= last.age /\ last.age <= 30
    IN (Analyzed /\ ~NoHostname(last.url) /\ is_ip(p) /\ short
                 /\ ~last.interrupted) =>
          /\ last.called
          /\ (AgeReturned /\ HasKeyword(p) /\ ~HasAt(last.url) /\ ~young) =>
                /\ last.heuristics = <<"H2_IP_Hostname", "H4_Keywords">>
                /\ last.score = 40 + 5
                /\ LookupDone
          /\ ~last.raised =>
                /\ Listed("H2_IP_Hostname", last.heuristics)
                /\ Listed("H3_At_Symbol", last.heuristics) <=> HasAt(last.url)
                /\ Listed("H4_Keywords", last.heuristics) <=> HasKeyword(p)
                /\ Listed("H7_Domain_Age", last.heuristics) <=> young
                /\ LookupDone

\* C14: http://192.168.1.1/login was analysed, the lookup issued a query
\* that failed, and the result lists H2 and H4 with score 45
C14_Witness ==
    /\ Analyzed /\ ~last.raised
    /\ RawUrl(last.url) = "http://192.168.1.1/login"
    /\ last.queried /\ last.age = -1
    /\ last.heuristics = <<"H2_IP_Hostname", "H4_Keywords">>
    /\ last.score = 45
    /\ LookupDone

\* C16: a call for a URL that parses with a hostname makes the lookup, once
\* and for the registered domain of the URL, which is in the cache when the
\* lookup has returned; a call whose parsing failed makes no lookup, issues
\* no query and leaves the cache as it was.
C16_OneLookupPerCall ==
    Analyzed =>
        IF NoHostname(last.url)
        THEN ~last.called /\ ~last.queried /\ ~last.changed
        ELSE ~last.interrupted =>
                /\ last.called
                /\ ~last.raised =>
                      /\ LastDomain \in DOMAIN whois_cache.map
                      /\ last.queried <=> last.changed

\* position of a heuristic in the order H1..H7
Rank(h) ==
    CASE h = "H1_Length"      -> 1
      [] h = "H2_IP_Hostname" -> 2
      [] h = "H3_At_Symbol"   -> 3
      [] h = "H4_Keywords"    -> 4
      [] h = "H5_Subdomains"  -> 5
      [] h = "H6_Abused_TLD"  -> 6
      [] h = "H7_Domain_Age"  -> 7

\* number of keywords that occur in the path of the URL of the last call
KeywordsInPath ==
    LET pth == url_to_parse(last.url).path
    IN Cardinality({k \in suspicious_keywords :
                       \E i \in 1..Len(pth) : Lower(pth[i]) = k})

\* C18: in every result that analyze_url returns, the score is the sum of
\* the weights of the listed heuristics and is not negative, no heuristic is
\* listed twice, and the list is in the order H1..H7.
C18_ScoreIsSumOfList ==
    (Analyzed /\ ~last.raised) =>
        LET found == last.heuristics
        IN /\ \A i \in 1..Len(found) : found[i] \in HeuristicIds
           /\ last.score = SumList(found)
           /\ last.score >= 0
           /\ \A i, j \in 1..Len(found) : i # j => found[i] # found[j]
           /\ \A i, j \in 1..Len(found) : i < j => Rank(found[i]) < Rank(found[j])

\* C18: a URL with two keywords in its path and a young domain was
\* analysed: H4 is listed once, before H7, and the score is 5 + 50
C18_Witness ==
    /\ Analyzed /\ ~last.raised
    /\ KeywordsInPath = 2
    /\ last.heuristics = <<"H4_Keywords", "H7_Domain_Age">>
    /\ last.score = 55

\* ------------------------------------------------------------------------
\* Properties of the batch loop and of the cache (Spec)

\* the main loop is back at the file prompt after a batch whose URLs it had
\* started to analyse: straight from a call of analyze_url, or from
\* save_cache whose write was completed
BackFromBatch ==
    /\ pc = "prompt"
    /\ \/ Analyzed
       \/ last.op = "SaveWrite" /\ intact

\* C15: when the main loop is back at the file prompt after a batch, every
\* domain of the in-memory cache, so every domain resolved in the batch, is
\* in the file with its age (a save that failed on the file system left
\* aside).
C15_SavedAtEndOfBatch ==
    BackFromBatch => Entries(whois_cache) \subseteq storage.pairs

\* every external query in the list of events has the delay right before it
PacedEvents(events) ==
    \A i \in 1..Len(events) :
        events[i] = "whois" => (i > 1 /\ events[i - 1] = "sleep")

\* number of external queries in the list of events
QueryCount(events) == Cardinality(Queries(events))

\* the lookup of the last call found the domain in the cache
LookupHit ==
    /\ last.called /\ ~last.changed
    /\ whois_cache.kind = "dict"
    /\ LastDomain \in DOMAIN whois_cache.map

\* the lookup of the last call missed the cache
Missed ==
    /\ last.called /\ ~LookupHit
    /\ whois_cache.kind \in {"dict", "list"}

\* C17: while the delay of a lookup runs no query of that lookup has been
\* issued, and while a query waits the delay of the same lookup has been
\* completed right before it and it is the lookup's only query; so for
\* every call every external query has the completed delay right before
\* it, a call issues at most one, a lookup that misses the cache does the
\* delay and then exactly one query (a lookup that the user's Ctrl-C ends
\* has issued at most the one query, and none without the completed
\* delay); a call that finds the domain in the cache, and a call without
\* lookup, does neither.
C17_DelayBeforeQuery ==
    /\ pc = "sleeping" => (cur.log.events = <<"sleep">> /\ ~cur.log.slept)
    /\ pc = "querying" =>
          (cur.log.slept /\ cur.log.events = <<"sleep", "whois">>)
    /\ Analyzed =>
          /\ PacedEvents(last.events)
          /\ QueryCount(last.events) = (IF last.queried THEN 1 ELSE 0)
          /\ last.queried =>
                (last.slept /\ last.events = <<"sleep", "whois">>)
          /\ (Missed /\ ~last.interrupted) =>
                last.events = <<"sleep", "whois">>
          /\ (Missed /\ last.interrupted) =>
                last.events \in {<<>>, <<"sleep">>, <<"sleep", "whois">>}
          /\ (LookupHit \/ ~last.called) => last.events = <<>>

\* C17: in a process that had issued a query for another domain before, a
\* lookup missed the cache, completed the delay and issued its one query
C17_Witness ==
    /\ Analyzed /\ Missed /\ ~last.interrupted
    /\ last.slept /\ last.queried
    /\ last.events = <<"sleep", "whois">>
    /\ \E d \in Domains : d # LastDomain /\ queries[d] >= 1

\* the step is one of a process in which check_cache has run, and the
\* process is still there after it
StepAfterLoad ==
    /\ pc \notin {"start", "exited", "crashed"}
    /\ pc' \notin {"exited", "crashed"}

\* C19: once check_cache has run, no step of the process removes a key of
\* the in-memory cache or changes the age of a key that is present, and the
\* cache stays of the same kind; a save that completes writes all of these
\* entries, so it writes a superset of what was loaded or saved before in
\* the process.
C19_CacheOnlyGrows ==
    [][ StepAfterLoad =>
           /\ whois_cache'.kind = whois_cache.kind
           /\ Entries(whois_cache) \subseteq Entries(whois_cache')
           /\ (pc = "save_write" /\ intact') =>
                 storage'.pairs = Entries(whois_cache) ]_vars

\* C19: a process loaded example.com, resolved another domain and completed
\* a save: the file holds the loaded entry and the new one
C19_Witness ==
    /\ last.op = "SaveWrite" /\ intact
    /\ whois_cache.kind = "dict"
    /\ <<"example.com", 31>> \in storage.pairs
    /\ Cardinality(storage.pairs) >= 2
    /\ storage.pairs = Entries(whois_cache)

====
